---------------------------- MODULE Spec2Model ----------------------------
(***************************************************************************)
(* Model of hummingbot's market making controller base                     *)
(* (smart_components/controllers/market_making_controller_base.py):        *)
(* MarketMakingControllerConfigBase (spreads / amounts validation,         *)
(* normalisation, update_parameters) and MarketMakingControllerBase (the   *)
(* reconciliation cycle determine_executor_actions and its passes).        *)
(*                                                                         *)
(* Python floats are modelled as binary floating point numbers with a      *)
(* mantissa of FloatBits bits (53 in the program): <<m, e>> is the number   *)
(* m * 2^e, with 2^(FloatBits-1) <= |m| < 2^FloatBits, and <<0, 0>> is 0.  *)
(* Every arithmetic operation rounds its exact result to the nearest such  *)
(* number, ties to even. The ints of the program are small enough to be    *)
(* such numbers exactly. Python exceptions are results                     *)
(* [ok |-> FALSE, err |-> name].                                           *)
(***************************************************************************)
EXTENDS Integers, Sequences, FiniteSets, TLC

VARIABLES
    config,          \* the MarketMakingControllerConfigBase instance (its __dict__), or NoConfig
    cfgState,        \* "new" | "ready" | "failed": position of the config's construction
    hooks,           \* which overridable methods the concrete strategy supplies
    executors_info,  \* the executor snapshot held by the controller (a sequence)
    processed_data,  \* {"reference_price", "spread_multiplier"}
    clock,           \* the wall clock read by time.time()
    lastCall,        \* the last operation called on the program and what it returned or raised
    update_raised    \* whether some update_parameters call on this config has raised

vars == <<config, cfgState, hooks, executors_info, processed_data, clock, lastCall,
          update_raised>>

-----------------------------------------------------------------------------
(* Bounds of the model *)

\* longest spreads / amounts list given to the constructor or to update_parameters
MaxLevels == 3
\* bits of a float's mantissa
FloatBits == 11
\* longest executor snapshot of the reconciliation specification
MaxExecutors == 2
\* executors beyond EXECUTORS_BUFFER in the snapshots of the buffer specification
MaxOverflow == 3

-----------------------------------------------------------------------------
(* Python floats *)

Abs(x) == IF x < 0 THEN -x ELSE x
Sign(x) == IF x < 0 THEN -1 ELSE 1

\* the number of bits of the natural number x
RECURSIVE BitLen(_)
BitLen(x) == IF x = 0 THEN 0 ELSE 1 + BitLen(x \div 2)

\* the float nearest to M * 2^E, for an integer M > 0 of L bits: M is cut to its
\* FloatBits leading bits and rounded on the bits cut off, ties to even
RoundAt(M, E, L) ==
    IF L <= FloatBits
    THEN <<M * 2^(FloatBits - L), E - (FloatBits - L)>>
    ELSE LET s == L - FloatBits
             q == M \div 2^s
             r == M % 2^s
             m == IF 2 * r > 2^s \/ (2 * r = 2^s /\ q % 2 = 1) THEN q + 1 ELSE q
         IN  IF m = 2^FloatBits THEN <<2^(FloatBits - 1), E + s + 1>> ELSE <<m, E + s>>

\* the float nearest to M * 2^E for any integer M
Norm(M, E) ==
    IF M = 0 THEN <<0, 0>>
    ELSE LET r == RoundAt(Abs(M), E, BitLen(Abs(M)))
         IN  <<Sign(M) * r[1], r[2]>>

\* the int i as a float
RInt(i) == Norm(i, 0)
RZero == <<0, 0>>
ROne == RInt(1)

\* In the four operations on floats the operands u and v are evaluated once, as x and
\* y, before the operation is applied.

\* x * y: the product of the mantissas has 2 * FloatBits - 1 or 2 * FloatBits bits
RMul(u, v) ==
    CHOOSE w \in {
        IF x[1] = 0 \/ y[1] = 0 THEN RZero
        ELSE LET M == Abs(x[1]) * Abs(y[1])
                 r == RoundAt(M, x[2] + y[2],
                              IF M >= 2^(2 * FloatBits - 1) THEN 2 * FloatBits
                                                            ELSE 2 * FloatBits - 1)
             IN  <<Sign(x[1]) * Sign(y[1]) * r[1], r[2]>>
        : x \in {u}, y \in {v}} : TRUE

\* x / y, for y # 0: the quotient of the mantissas is taken with FloatBits + 2 more
\* bits and one bit that tells whether the division left a remainder
RDiv(u, v) ==
    CHOOSE w \in {
        IF x[1] = 0 THEN RZero
        ELSE LET n == Abs(x[1]) * 2^(FloatBits + 2)
                 d == Abs(y[1])
                 M == 2 * (n \div d) + (IF n % d = 0 THEN 0 ELSE 1)
                 r == RoundAt(M, x[2] - y[2] - (FloatBits + 3),
                              IF M >= 2^(FloatBits + 3) THEN FloatBits + 4 ELSE FloatBits + 3)
             IN  <<Sign(x[1]) * Sign(y[1]) * r[1], r[2]>>
        : x \in {u}, y \in {v}} : TRUE

\* x + y for x the one with the larger exponent: a y below a quarter of the last bit of
\* x is absorbed, otherwise the mantissas are added on the exponent of y
AddAligned(x, y) ==
    LET k == x[2] - y[2]
    IN  IF k > FloatBits + 1 THEN x
        ELSE IF Sign(x[1]) # Sign(y[1]) THEN Norm(x[1] * 2^k + y[1], y[2])
        ELSE LET M == Abs(x[1]) * 2^k + Abs(y[1])
                 r == RoundAt(M, y[2], IF M >= 2^(FloatBits + k) THEN FloatBits + k + 1
                                                                  ELSE FloatBits + k)
             IN  <<Sign(x[1]) * r[1], r[2]>>

RAdd(u, v) ==
    CHOOSE w \in {
        IF x[1] = 0 THEN y
        ELSE IF y[1] = 0 THEN x
        ELSE IF x[2] >= y[2] THEN AddAligned(x, y) ELSE AddAligned(y, x)
        : x \in {u}, y \in {v}} : TRUE

\* x < y
RLt(u, v) ==
    CHOOSE w \in {
        IF x[1] = 0 \/ y[1] = 0 \/ Sign(x[1]) # Sign(y[1]) THEN x[1] < y[1]
        ELSE IF x[2] = y[2] THEN x[1] < y[1]
        ELSE IF x[1] > 0 THEN x[2] < y[2] ELSE x[2] > y[2]
        : x \in {u}, y \in {v}} : TRUE

\* the float n / d for ints n and d # 0
Rat(n, d) == RDiv(RInt(n), RInt(d))

\* Python's sum() over a list of numbers: 0 + s[1] + s[2] + ..., from the left
RECURSIVE sum(_)
sum(s) == IF s = <<>> THEN RZero ELSE RAdd(sum(SubSeq(s, 1, Len(s) - 1)), s[Len(s)])

-----------------------------------------------------------------------------
(* Python values *)

None == [kind |-> "None"]
PyStr(toks) == [kind |-> "str", toks |-> toks]
PyList(items) == [kind |-> "list", items |-> items]

\* body applied to the value of v, which is evaluated once
With(v, body(_)) == CHOOSE w \in {body(x) : x \in {v}} : TRUE

Return(v) == [ok |-> TRUE, val |-> v]
Raise(e) == [ok |-> FALSE, err |-> e]

\* hummingbot.core.data_type.common.TradeType, an Enum: a member is equal only to itself,
\* never to a str
TradeType == [BUY |-> [enum |-> "TradeType", name |-> "BUY"],
              SELL |-> [enum |-> "TradeType", name |-> "SELL"]]

\* str.lower() and str.upper() on the names the program handles
lower(s) == CASE s = "BUY" -> "buy" [] s = "SELL" -> "sell" [] OTHER -> s
upper(s) == CASE s = "buy" -> "BUY" [] s = "sell" -> "SELL" [] OTHER -> s

\* a str as a Python value (compared with ==, a str never equals an Enum member)
StrVal(s) == [str |-> s]

Range(s) == {s[i] : i \in 1..Len(s)}

\* [x for x in s if keep(x)], keeping the order of s
Filter(s, keep(_)) == SelectSeq(s, keep)


-----------------------------------------------------------------------------
(* MarketMakingControllerConfigBase *)

\* the scalar fields' defaults
DefaultTotalAmountQuote == 100
DefaultCooldownTime == 15
DefaultLeverage == 20
DefaultClosedExecutorsBuffer == 10

NoConfig == [kind |-> "NoConfig"]

\* str.strip() on one piece of a comma-separated input
strip(x) ==
    CASE x = " 0.01" -> "0.01"
      [] x = " 0.02" -> "0.02"
      [] x = " 0.03" -> "0.03"
      [] x = " abc" -> "abc"
      [] x = " 1" -> "1"
      [] x = " 3" -> "3"
      [] x = " x" -> "x"
      [] OTHER -> x

\* float() of a stripped piece: ValueError when it is not numeric
float(x) ==
    CASE x = "0.01" -> Return(Rat(1, 100))
      [] x = "0.02" -> Return(Rat(2, 100))
      [] x = "0.03" -> Return(Rat(3, 100))
      [] OTHER -> Raise("ValueError")

\* int() of a stripped piece: ValueError when it is not an integer literal
int(x) ==
    CASE x = "0" -> Return(RInt(0))
      [] x = "1" -> Return(RInt(1))
      [] x = "3" -> Return(RInt(3))
      [] OTHER -> Raise("ValueError")

\* [conv(x.strip()) for x in v.split(',')], toks being the pieces v.split(',') yields
ParseEach(toks, conv(_)) ==
    LET parsed == [i \in 1..Len(toks) |-> conv(strip(toks[i]))]
    IN  IF \E i \in 1..Len(toks) : ~parsed[i].ok
        THEN Raise("ValueError")
        ELSE Return([i \in 1..Len(toks) |-> parsed[i].val])

\* validator parse_spreads(cls, v)
parse_spreads(v) ==
    IF v.kind = "str" THEN ParseEach(v.toks, float) ELSE Return(v.items)

\* a pydantic ModelField (it has a name) and a plain str naming a field (it has none)
ModelField(name) == [kind |-> "ModelField", name |-> name]
FieldNameStr(name) == [kind |-> "str", value |-> name]

\* field.name.replace('amounts_pct', 'spreads')
replace_amounts_pct(name) ==
    CASE name = "buy_amounts_pct" -> "buy_spreads"
      [] name = "sell_amounts_pct" -> "sell_spreads"
      [] OTHER -> name

\* validator parse_and_validate_amounts(cls, v, values, field)
parse_and_validate_amounts(v, values, field) ==
    LET v1 == IF v.kind = "str"
              THEN LET r == ParseEach(v.toks, int)
                   IN  IF r.ok THEN Return(PyList(r.val)) ELSE r
              ELSE Return(v)
    IN  IF ~v1.ok THEN v1
        ELSE IF "name" \notin DOMAIN field THEN Raise("AttributeError")
        ELSE LET spread_field == replace_amounts_pct(field.name)
             IN  IF v1.val = None
                 THEN Return([i \in 1..Len(values[spread_field]) |-> ROne])
                 ELSE IF Len(v1.val.items) # Len(values[spread_field])
                      THEN Raise("ValueError")
                      ELSE Return(v1.val.items)

\* [amt / total for amt in amounts]: ZeroDivisionError at the first element when total is 0
DivideEach(amounts, total) ==
    IF amounts # <<>> /\ total = RZero
    THEN Raise("ZeroDivisionError")
    ELSE Return([i \in 1..Len(amounts) |-> RDiv(amounts[i], total)])

\* root validator normalize_amounts(cls, values): values is changed in place, the buy
\* side (line 107) before the sell side (line 108); val is values as the call leaves it
normalize_amounts(values) ==
    LET total_buy == sum(values.buy_amounts_pct)
        total_sell == sum(values.sell_amounts_pct)
        buy == DivideEach(values.buy_amounts_pct, total_buy)
    IN  IF ~buy.ok THEN [ok |-> FALSE, err |-> buy.err, val |-> values]
        ELSE LET values1 == [values EXCEPT !.buy_amounts_pct = buy.val]
                 sell == DivideEach(values1.sell_amounts_pct, total_sell)
             IN  IF ~sell.ok THEN [ok |-> FALSE, err |-> sell.err, val |-> values1]
                 ELSE [ok |-> TRUE, err |-> "",
                       val |-> [values1 EXCEPT !.sell_amounts_pct = sell.val]]

\* MarketMakingControllerConfigBase(**raw): the field validators in the order of the
\* fields, then the root validator; any error leaves no config
Construct(raw) ==
    With(parse_spreads(raw.buy_spreads), LAMBDA bs :
    IF ~bs.ok THEN Raise(bs.err) ELSE
    With(parse_and_validate_amounts(raw.buy_amounts_pct, [buy_spreads |-> bs.val],
                                    ModelField("buy_amounts_pct")), LAMBDA ba :
    IF ~ba.ok THEN Raise(ba.err) ELSE
    With(parse_spreads(raw.sell_spreads), LAMBDA ss :
    IF ~ss.ok THEN Raise(ss.err) ELSE
    With(parse_and_validate_amounts(raw.sell_amounts_pct,
                                    [buy_spreads |-> bs.val, buy_amounts_pct |-> ba.val,
                                     sell_spreads |-> ss.val],
                                    ModelField("sell_amounts_pct")), LAMBDA sa :
    IF ~sa.ok THEN Raise(sa.err) ELSE
    With(normalize_amounts(
            [id |-> "controller",
             total_amount_quote |-> RInt(DefaultTotalAmountQuote),
             buy_spreads |-> bs.val, buy_amounts_pct |-> ba.val,
             sell_spreads |-> ss.val, sell_amounts_pct |-> sa.val,
             executor_refresh_time |-> raw.executor_refresh_time,
             cooldown_time |-> DefaultCooldownTime,
             leverage |-> DefaultLeverage,
             position_mode |-> "HEDGE",
             closed_executors_buffer |-> DefaultClosedExecutorsBuffer]), LAMBDA n :
    IF ~n.ok THEN Raise(n.err) ELSE Return(n.val))))))

\* update_parameters as it would be if omitted amounts kept the fractions the side held
update_parameters_keep_held(self, trade_type, new_spreads, new_amounts_pct) ==
    LET spreads_field == IF trade_type = TradeType.BUY THEN "buy_spreads" ELSE "sell_spreads"
        amounts_pct_field == IF trade_type = TradeType.BUY THEN "buy_amounts_pct"
                                                           ELSE "sell_amounts_pct"
        spreads == parse_spreads(new_spreads)
    IN  IF ~spreads.ok THEN [ok |-> FALSE, err |-> spreads.err, self |-> self] ELSE
    LET self1 == [self EXCEPT ![spreads_field] = spreads.val]
    IN  IF new_amounts_pct # None
        THEN LET amounts == parse_and_validate_amounts(new_amounts_pct, self1,
                                                       FieldNameStr(amounts_pct_field))
             IN  IF ~amounts.ok
                 THEN [ok |-> FALSE, err |-> amounts.err, self |-> self1]
                 ELSE LET n == normalize_amounts([self1 EXCEPT ![amounts_pct_field] = amounts.val])
                      IN  [ok |-> n.ok, err |-> n.err, self |-> n.val]
        ELSE LET n == normalize_amounts(self1)
             IN  [ok |-> n.ok, err |-> n.err, self |-> n.val]

\* update_parameters(self, trade_type, new_spreads, new_amounts_pct): self is what the
\* call leaves in the config, also when it raises
update_parameters(self, trade_type, new_spreads, new_amounts_pct) ==
    LET spreads_field == IF trade_type = TradeType.BUY THEN "buy_spreads" ELSE "sell_spreads"
        amounts_pct_field == IF trade_type = TradeType.BUY THEN "buy_amounts_pct"
                                                           ELSE "sell_amounts_pct"
    IN  With(parse_spreads(new_spreads), LAMBDA spreads :
        IF ~spreads.ok THEN [ok |-> FALSE, err |-> spreads.err, self |-> self] ELSE
        With([self EXCEPT ![spreads_field] = spreads.val], LAMBDA self1 :
        IF new_amounts_pct # None
        THEN With(parse_and_validate_amounts(new_amounts_pct, self1,
                                             FieldNameStr(amounts_pct_field)), LAMBDA amounts :
             IF ~amounts.ok
             THEN [ok |-> FALSE, err |-> amounts.err, self |-> self1]
             ELSE With(normalize_amounts([self1 EXCEPT ![amounts_pct_field] = amounts.val]),
                       LAMBDA n : [ok |-> n.ok, err |-> n.err, self |-> n.val]))
        ELSE With(normalize_amounts(
                    [self1 EXCEPT ![amounts_pct_field] =
                                        [i \in 1..Len(self1[spreads_field]) |-> ROne]]),
                  LAMBDA n : [ok |-> n.ok, err |-> n.err, self |-> n.val])))

\* get_spreads_and_amounts_in_quote(self, trade_type)
get_spreads_and_amounts_in_quote(self, trade_type) ==
    LET spreads == self[lower(trade_type.name) \o "_spreads"]
        amounts_pct == self[lower(trade_type.name) \o "_amounts_pct"]
    IN  <<spreads, [i \in 1..Len(amounts_pct) |-> RMul(amounts_pct[i], self.total_amount_quote)]>>


-----------------------------------------------------------------------------
(* MarketMakingControllerBase *)

\* Number of executors to keep in the buffer until they are stored
EXECUTORS_BUFFER == 5

\* SmartComponentStatus
RUNNING == "RUNNING"
TERMINATED == "TERMINATED"

\* the level id f"{side}_{level}", kept as its two parts: level_id.split('_') gives them back
LevelId(side, level) == <<side, level>>

CreateExecutorAction(controller_id, executor_config) ==
    [type |-> "CreateExecutorAction", controller_id |-> controller_id,
     executor_config |-> executor_config]
StopExecutorAction(executor_id) ==
    [type |-> "StopExecutorAction", executor_id |-> executor_id]

\* get_level_id_from_side(self, trade_type, level)
get_level_id_from_side(trade_type, level) == LevelId(lower(trade_type.name), level)

\* get_trade_type_from_level_id(self, level_id)
get_trade_type_from_level_id(level_id) ==
    IF level_id[1] = "buy" THEN TradeType.BUY ELSE TradeType.SELL

\* get_level_from_level_id(self, level_id)
get_level_from_level_id(level_id) == level_id[2]

\* get_price_and_amount(self, level_id): trade_type is the str cut from the level id
get_price_and_amount(level_id) ==
    LET trade_type == StrVal(level_id[1])
        level == level_id[2]
    IN  With(get_spreads_and_amounts_in_quote(config, TradeType[upper(trade_type.str)]),
             LAMBDA sa :
        LET spreads == sa[1]
            amounts_quote == sa[2]
        IN  IF "reference_price" \notin DOMAIN processed_data THEN Raise("KeyError")
            ELSE IF level + 1 > Len(spreads) THEN Raise("IndexError")
            ELSE LET reference_price == processed_data.reference_price
                     spread_in_pct == RMul(spreads[level + 1], processed_data.spread_multiplier)
                     side_multiplier == IF trade_type = TradeType.BUY THEN -1 ELSE 1
                 IN  With(RMul(reference_price,
                               RAdd(ROne, RMul(RInt(side_multiplier), spread_in_pct))),
                          LAMBDA order_price :
                     IF level + 1 > Len(amounts_quote) THEN Raise("IndexError")
                     ELSE IF order_price = RZero THEN Raise("ZeroDivisionError")
                     ELSE Return(<<order_price, RDiv(amounts_quote[level + 1], order_price)>>)))

\* get_executor_config(self, level_id, price, amount_in_quote): abstract in the base
\* class; a concrete strategy builds the executor's config from its three arguments
get_executor_config(level_id, price, amount_in_quote) ==
    IF hooks.get_executor_config = "base"
    THEN Raise("NotImplementedError")
    ELSE Return([level_id |-> level_id, side |-> get_trade_type_from_level_id(level_id),
                 price |-> price, amount |-> amount_in_quote])

\* a get_not_active_levels_ids that forgets the filter on the sell side
get_not_active_levels_ids_sell_unfiltered(active_levels_ids) ==
    LET buy_ids == [i \in 1..Len(config.buy_spreads) |->
                        get_level_id_from_side(TradeType.BUY, i - 1)]
        sell_ids == [i \in 1..Len(config.sell_spreads) |->
                        get_level_id_from_side(TradeType.SELL, i - 1)]
        missing(id) == id \notin Range(active_levels_ids)
    IN  Filter(buy_ids, missing) \o sell_ids

\* get_not_active_levels_ids as it would be if it returned the sell side first
get_not_active_levels_ids_sell_first(active_levels_ids) ==
    LET buy_ids == [i \in 1..Len(config.buy_spreads) |->
                        get_level_id_from_side(TradeType.BUY, i - 1)]
        sell_ids == [i \in 1..Len(config.sell_spreads) |->
                        get_level_id_from_side(TradeType.SELL, i - 1)]
        missing(id) == id \notin Range(active_levels_ids)
    IN  Filter(sell_ids, missing) \o Filter(buy_ids, missing)

\* get_not_active_levels_ids(self, active_levels_ids)
get_not_active_levels_ids(active_levels_ids) ==
    LET buy_ids == [i \in 1..Len(config.buy_spreads) |->
                        get_level_id_from_side(TradeType.BUY, i - 1)]
        sell_ids == [i \in 1..Len(config.sell_spreads) |->
                        get_level_id_from_side(TradeType.SELL, i - 1)]
        missing(id) == id \notin Range(active_levels_ids)
        buy_ids_missing == Filter(buy_ids, missing)
        sell_ids_missing == Filter(sell_ids, missing)
    IN  buy_ids_missing \o sell_ids_missing

\* filter_not_active_levels(self, not_active_levels): the identity unless overridden;
\* the overriding strategy of the model keeps the first level of each side only
filter_not_active_levels(not_active_levels) ==
    IF hooks.filter_not_active_levels = "default"
    THEN not_active_levels
    ELSE LET first(id) == get_level_from_level_id(id) = 0
         IN  Filter(not_active_levels, first)

\* the loop of create_actions_proposal as it would be if a level whose
\* get_executor_config raises were skipped
RECURSIVE CreateEach_skip_unimplemented(_)
CreateEach_skip_unimplemented(levels) ==
    IF levels = <<>> THEN Return(<<>>)
    ELSE LET level_id == Head(levels)
             pa == get_price_and_amount(level_id)
         IN  IF ~pa.ok THEN pa
             ELSE LET ec == get_executor_config(level_id, pa.val[1], pa.val[2])
                      rest == CreateEach_skip_unimplemented(Tail(levels))
                  IN  IF ~ec.ok THEN rest
                      ELSE IF ~rest.ok THEN rest
                      ELSE Return(<<CreateExecutorAction(config.id, ec.val)>>
                                      \o rest.val)

\* the loop of create_actions_proposal over levels_to_execute: the first error raised
\* for a level ends it
RECURSIVE CreateEach(_)
CreateEach(levels) ==
    IF levels = <<>> THEN Return(<<>>)
    ELSE LET level_id == Head(levels)
         IN  With(get_price_and_amount(level_id), LAMBDA pa :
             IF ~pa.ok THEN pa ELSE
             With(get_executor_config(level_id, pa.val[1], pa.val[2]), LAMBDA ec :
             IF ~ec.ok THEN ec ELSE
             With(CreateEach(Tail(levels)), LAMBDA rest :
             IF ~rest.ok THEN rest
             ELSE Return(<<CreateExecutorAction(config.id, ec.val)>> \o rest.val))))

\* a create_actions_proposal for which an executor that is no longer active still
\* holds its level
create_actions_proposal_held_by_closed ==
    LET is_buy(executor) == executor.trade_type = TradeType.BUY
        is_sell(executor) == executor.trade_type = TradeType.SELL
        held == Filter(executors_info, is_buy) \o Filter(executors_info, is_sell)
        held_levels_ids == [i \in 1..Len(held) |-> held[i].custom_info.level_id]
        not_active_levels == get_not_active_levels_ids(held_levels_ids)
        levels_to_execute == filter_not_active_levels(not_active_levels)
    IN  CreateEach(levels_to_execute)

\* a create_actions_proposal that takes the active buy executors only as holding
\* their levels
create_actions_proposal_buy_only ==
    LET is_active_buy(executor) == executor.trade_type = TradeType.BUY /\ executor.is_active
        active == Filter(executors_info, is_active_buy)
        active_levels_ids == [i \in 1..Len(active) |-> active[i].custom_info.level_id]
        not_active_levels == get_not_active_levels_ids(active_levels_ids)
        levels_to_execute == filter_not_active_levels(not_active_levels)
    IN  CreateEach(levels_to_execute)

\* create_actions_proposal(self)
create_actions_proposal ==
    LET is_active_buy(executor) == executor.trade_type = TradeType.BUY /\ executor.is_active
        is_active_sell(executor) == executor.trade_type = TradeType.SELL /\ executor.is_active
        active_buy_executors == Filter(executors_info, is_active_buy)
        active_sell_executors == Filter(executors_info, is_active_sell)
        active == active_buy_executors \o active_sell_executors
        active_levels_ids == [i \in 1..Len(active) |-> active[i].custom_info.level_id]
        not_active_levels == get_not_active_levels_ids(active_levels_ids)
    IN  With(filter_not_active_levels(not_active_levels),
             LAMBDA levels_to_execute : CreateEach(levels_to_execute))

\* executors_to_refresh as it would be if it compared the age with cooldown_time
executors_to_refresh_cooldown(reads) ==
    LET idx == [i \in 1..Len(executors_info) |-> i]
        stale(i) == /\ ~executors_info[i].is_trading
                    /\ executors_info[i].is_active
                    /\ reads[i] - executors_info[i].timestamp > config.cooldown_time
        to_refresh == Filter(idx, stale)
    IN  [k \in 1..Len(to_refresh) |-> StopExecutorAction(executors_info[to_refresh[k]].id)]

\* executors_to_refresh(self): reads[i] is what time.time() returns when the filter
\* reaches the i-th executor of the snapshot
executors_to_refresh(reads) ==
    LET idx == [i \in 1..Len(executors_info) |-> i]
        stale(i) == /\ ~executors_info[i].is_trading
                    /\ executors_info[i].is_active
                    /\ reads[i] - executors_info[i].timestamp > config.executor_refresh_time
        to_refresh == Filter(idx, stale)
    IN  [k \in 1..Len(to_refresh) |-> StopExecutorAction(executors_info[to_refresh[k]].id)]

\* executors_to_early_stop(self): nothing unless overridden; the overriding strategy of
\* the model stops every executor that is trading
executors_to_early_stop ==
    IF hooks.executors_to_early_stop = "default"
    THEN <<>>
    ELSE LET trading(executor) == executor.is_trading
             to_stop == Filter(executors_info, trading)
         IN  [k \in 1..Len(to_stop) |-> StopExecutorAction(to_stop[k].id)]

\* stop_actions_proposal(self)
stop_actions_proposal(reads) == executors_to_refresh(reads) \o executors_to_early_stop

\* sorted(s, key=lambda x: x.close_timestamp, reverse=True): stable, largest first
RECURSIVE sorted_by_close_timestamp(_)
sorted_by_close_timestamp(s) ==
    IF s = <<>> THEN <<>>
    ELSE LET m == CHOOSE i \in 1..Len(s) :
                    /\ \A j \in 1..Len(s) : s[j].close_timestamp <= s[i].close_timestamp
                    /\ \A j \in 1..(i - 1) : s[j].close_timestamp < s[i].close_timestamp
             rest == [k \in 1..(Len(s) - 1) |-> IF k < m THEN s[k] ELSE s[k + 1]]
         IN  <<s[m]>> \o sorted_by_close_timestamp(rest)

\* a store_actions_proposal that stops the terminated executors past the buffer, most
\* recently closed first, rather than a slice of the snapshot
store_actions_proposal_terminated_slice ==
    LET terminated(x) == x.status = TERMINATED
        terminated_executors == Filter(executors_info, terminated)
        executors_sorted_by_close_timestamp == sorted_by_close_timestamp(terminated_executors)
    IN  IF Len(executors_sorted_by_close_timestamp) > EXECUTORS_BUFFER
        THEN [k \in 1..(Len(executors_sorted_by_close_timestamp) - EXECUTORS_BUFFER) |->
                StopExecutorAction(executors_sorted_by_close_timestamp[EXECUTORS_BUFFER + k].id)]
        ELSE <<>>

\* store_actions_proposal(self)
store_actions_proposal ==
    LET terminated(x) == x.status = TERMINATED
        terminated_executors == Filter(executors_info, terminated)
        executors_sorted_by_close_timestamp == sorted_by_close_timestamp(terminated_executors)
    IN  IF Len(executors_sorted_by_close_timestamp) > EXECUTORS_BUFFER
        THEN [k \in 1..(Len(executors_info) - EXECUTORS_BUFFER) |->
                StopExecutorAction(executors_info[EXECUTORS_BUFFER + k].id)]
        ELSE <<>>

\* a determine_executor_actions that extends the list with the store proposal before
\* the stop proposal
determine_executor_actions_store_first(reads) ==
    LET create == create_actions_proposal
    IN  IF ~create.ok THEN Raise(create.err)
        ELSE Return(create.val \o store_actions_proposal \o stop_actions_proposal(reads))

\* determine_executor_actions(self): the three proposals in the order of the calls; an
\* error raised by the first one leaves no list
determine_executor_actions(reads) ==
    With(create_actions_proposal, LAMBDA create :
         IF ~create.ok THEN Raise(create.err)
         ELSE Return(create.val \o stop_actions_proposal(reads) \o store_actions_proposal))


-----------------------------------------------------------------------------
(* Inputs *)

Min(a, b) == IF a < b THEN a ELSE b

\* spreads of 1%, 2%, ... for n levels
SpreadLadder(n) == [i \in 1..n |-> Rat(i, 100)]

\* what a caller passes as spreads: a list of floats or a comma-separated str
SpreadInputs ==
    {PyList(SpreadLadder(n)) : n \in 0..MaxLevels}
        \cup {PyStr(<<"0.01", " 0.02">>), PyStr(<<"0.01", " abc">>)}

\* what a caller passes as amounts: None, a list of ints (equal weights, the weights
\* 1, 4, 1, ... or zeros, for 0..MaxLevels levels) or a comma-separated str
AmountInputs ==
    {None}
        \cup {PyList([i \in 1..n |-> RInt(1)]) : n \in 0..MaxLevels}
        \cup {PyList([i \in 1..n |-> RInt(IF i % 2 = 1 THEN 1 ELSE 4)]) : n \in 0..MaxLevels}
        \cup {PyList([i \in 1..n |-> RInt(0)]) : n \in 0..MaxLevels}
        \cup {PyStr(<<"1", " 3">>), PyStr(<<"1", " x">>)}

RawInputs ==
    [buy_spreads : SpreadInputs, buy_amounts_pct : AmountInputs,
     sell_spreads : SpreadInputs, sell_amounts_pct : AmountInputs,
     executor_refresh_time : {1}]

\* the fields' defaults: buy_spreads "0.01, 0.02", sell_spreads "0.01,0.02", no amounts;
\* executor_refresh_time is given, as one tick of the model's clock
DefaultRaw ==
    [buy_spreads |-> PyStr(<<"0.01", " 0.02">>), buy_amounts_pct |-> None,
     sell_spreads |-> PyStr(<<"0.01", "0.02">>), sell_amounts_pct |-> None,
     executor_refresh_time |-> 1]

\* the strategies of the model: the base class alone, a concrete strategy that supplies
\* get_executor_config only, and one that also overrides the two hooks
BaseHooks ==
    [get_executor_config |-> "base", executors_to_early_stop |-> "default",
     filter_not_active_levels |-> "default"]

ConcreteDefaultHooks ==
    [get_executor_config |-> "concrete", executors_to_early_stop |-> "default",
     filter_not_active_levels |-> "default"]

OverridingHooks ==
    [get_executor_config |-> "concrete", executors_to_early_stop |-> "override",
     filter_not_active_levels |-> "override"]

\* the mid prices the market data provider reports
ProviderPrices == {RInt(100), RInt(101)}

\* the level ids of a config
LevelIds(cfg) ==
    {get_level_id_from_side(TradeType.BUY, i - 1) : i \in 1..Len(cfg.buy_spreads)}
        \cup {get_level_id_from_side(TradeType.SELL, i - 1) : i \in 1..Len(cfg.sell_spreads)}

\* the last tick of the model's clock: one tick past the refresh time, where every
\* executor started at tick 0 has an age greater than the refresh time
LastTick(cfg) == cfg.executor_refresh_time + 1

\* the values n successive reads of time.time() may return when the first is not before
\* lo and the last not after hi: a cycle is short against a tick of the model's clock,
\* which ticks at most once while the cycle runs
ClockReads(n, lo, hi) ==
    {[i \in 1..n |-> IF i <= k THEN lo ELSE t] : k \in 0..n, t \in lo..Min(lo + 1, hi)}

NoCall == [op |-> "none"]

-----------------------------------------------------------------------------
(* Operations *)

\* MarketMakingControllerConfigBase(**raw)
ConstructConfig(raw) ==
    /\ cfgState = "new"
    /\ \E r \in {Construct(raw)} :
           /\ config' = IF r.ok THEN r.val ELSE NoConfig
           /\ cfgState' = IF r.ok THEN "ready" ELSE "failed"
           /\ lastCall' = [op |-> "construct", ok |-> r.ok,
                           err |-> IF r.ok THEN "" ELSE r.err,
                           buy_amounts_given |-> raw.buy_amounts_pct # None,
                           sell_amounts_given |-> raw.sell_amounts_pct # None]
    /\ UNCHANGED <<hooks, executors_info, processed_data, clock, update_raised>>

\* config.update_parameters(trade_type, new_spreads, new_amounts_pct); held is what the
\* side's amounts were when the call started
UpdateParameters(trade_type, new_spreads, new_amounts_pct) ==
    /\ cfgState = "ready"
    /\ \E r \in {update_parameters(config, trade_type, new_spreads, new_amounts_pct)} :
           /\ config' = r.self
           /\ lastCall' = [op |-> "update_parameters", trade_type |-> trade_type,
                           amounts_given |-> new_amounts_pct # None,
                           held |-> config[IF trade_type = TradeType.BUY
                                           THEN "buy_amounts_pct" ELSE "sell_amounts_pct"],
                           ok |-> r.ok, err |-> r.err]
           /\ update_raised' = (update_raised \/ ~r.ok)
    /\ UNCHANGED <<cfgState, hooks, executors_info, processed_data, clock>>

\* update_market_data(self): the provider's mid price, spread multiplier 1
UpdateMarketData(reference_price) ==
    /\ cfgState = "ready"
    /\ processed_data' = [reference_price |-> reference_price, spread_multiplier |-> ROne]
    /\ lastCall' = [op |-> "update_market_data"]
    /\ UNCHANGED <<config, cfgState, hooks, executors_info, clock, update_raised>>

\* a cycle in which get_spreads_and_amounts_in_quote wrote the quote amounts of the buy
\* side back into the config
DetermineExecutorActions_amounts_in_place ==
    /\ cfgState = "ready"
    /\ \E reads \in ClockReads(Len(executors_info), clock, LastTick(config)) :
          \E r \in {determine_executor_actions(reads)} :
              /\ lastCall' = [op |-> "determine_executor_actions", ok |-> r.ok,
                              err |-> IF r.ok THEN "" ELSE r.err,
                              actions |-> IF r.ok THEN r.val ELSE <<>>,
                              now |-> clock, reads |-> reads]
              /\ clock' = IF r.ok /\ reads # <<>> THEN reads[Len(reads)] ELSE clock
    /\ config' = [config EXCEPT
                    !.buy_amounts_pct = get_spreads_and_amounts_in_quote(config, TradeType.BUY)[2]]
    /\ UNCHANGED <<cfgState, hooks, executors_info, processed_data, update_raised>>

\* determine_executor_actions(self); now is the clock when the call starts, reads are
\* the values time.time() returns to the refresh pass, one for each executor
DetermineExecutorActions ==
    /\ cfgState = "ready"
    /\ \E reads \in ClockReads(Len(executors_info), clock, LastTick(config)) :
          \E r \in {determine_executor_actions(reads)} :
              /\ lastCall' = [op |-> "determine_executor_actions", ok |-> r.ok,
                              err |-> IF r.ok THEN "" ELSE r.err,
                              actions |-> IF r.ok THEN r.val ELSE <<>>,
                              now |-> clock, reads |-> reads]
              /\ clock' = IF r.ok /\ reads # <<>> THEN reads[Len(reads)] ELSE clock
    /\ UNCHANGED <<config, cfgState, hooks, executors_info, processed_data, update_raised>>

\* get_price_and_amount(level_id) called on its own
Resolve(level_id) ==
    /\ cfgState = "ready"
    /\ \E r \in {get_price_and_amount(level_id)} :
           lastCall' = [op |-> "get_price_and_amount", level_id |-> level_id, ok |-> r.ok,
                        price |-> IF r.ok THEN r.val[1] ELSE RZero,
                        amount |-> IF r.ok THEN r.val[2] ELSE RZero]
    /\ UNCHANGED <<config, cfgState, hooks, executors_info, processed_data, clock,
                   update_raised>>

-----------------------------------------------------------------------------
(* The executors, owned by the orchestrator: the controller only reads them *)

\* an executor starts for a level: active, not trading, stamped with the clock; most
\* bounds the snapshot, latest is the last tick at which the snapshot changes
NewExecutor(level_id, most, latest) ==
    /\ cfgState = "ready"
    /\ Len(executors_info) < most
    /\ clock <= latest
    /\ executors_info' = Append(executors_info,
            [id |-> Len(executors_info) + 1,
             trade_type |-> get_trade_type_from_level_id(level_id),
             is_active |-> TRUE, is_trading |-> FALSE, status |-> RUNNING,
             timestamp |-> clock, close_timestamp |-> None,
             custom_info |-> [level_id |-> level_id]])
    /\ lastCall' = NoCall
    /\ UNCHANGED <<config, cfgState, hooks, processed_data, clock, update_raised>>

\* an executor's order is filled: it is trading
StartTrading(i, latest) ==
    /\ clock <= latest
    /\ executors_info[i].is_active /\ ~executors_info[i].is_trading
    /\ executors_info' = [executors_info EXCEPT ![i].is_trading = TRUE]
    /\ lastCall' = NoCall
    /\ UNCHANGED <<config, cfgState, hooks, processed_data, clock, update_raised>>

\* an executor ends
Terminate(i, latest) ==
    /\ clock <= latest
    /\ executors_info[i].status # TERMINATED
    /\ executors_info' = [executors_info EXCEPT ![i].is_active = FALSE,
                                                ![i].is_trading = FALSE,
                                                ![i].status = TERMINATED,
                                                ![i].close_timestamp = clock]
    /\ lastCall' = NoCall
    /\ UNCHANGED <<config, cfgState, hooks, processed_data, clock, update_raised>>

\* time passes between two operations
Tick ==
    /\ cfgState = "ready"
    /\ clock < LastTick(config)
    /\ clock' = clock + 1
    /\ lastCall' = NoCall
    /\ UNCHANGED <<config, cfgState, hooks, executors_info, processed_data, update_raised>>

-----------------------------------------------------------------------------
(* Specifications *)

\* the reconciliation cycle over every snapshot of up to MaxExecutors executors, with
\* the default config
Init ==
    /\ config = Construct(DefaultRaw).val
    /\ cfgState = "ready"
    /\ hooks \in {BaseHooks, ConcreteDefaultHooks}
    /\ executors_info = <<>>
    /\ processed_data = [reference_price |-> RInt(100), spread_multiplier |-> ROne]
    /\ clock = 0
    /\ lastCall = NoCall
    /\ update_raised = FALSE

Next ==
    \/ \E level_id \in LevelIds(config) :
            NewExecutor(level_id, MaxExecutors, LastTick(config))
    \/ \E i \in 1..Len(executors_info) : StartTrading(i, LastTick(config))
    \/ \E i \in 1..Len(executors_info) : Terminate(i, LastTick(config))
    \/ Tick
    \/ DetermineExecutorActions

Spec == Init /\ [][Next]_vars

\* the config: its construction from raw input, then update_parameters calls
InitConfig ==
    /\ config = NoConfig
    /\ cfgState = "new"
    /\ hooks = ConcreteDefaultHooks
    /\ executors_info = <<>>
    /\ processed_data = [reference_price |-> RInt(100), spread_multiplier |-> ROne]
    /\ clock = 0
    /\ lastCall = NoCall
    /\ update_raised = FALSE

NextConfig ==
    \/ \E raw \in RawInputs : ConstructConfig(raw)
    \/ \E side \in {TradeType.BUY, TradeType.SELL}, s \in SpreadInputs, a \in AmountInputs :
            UpdateParameters(side, s, a)

SpecConfig == InitConfig /\ [][NextConfig]_vars

\* get_price_and_amount as a function of the config, the market data and the level id
ResolverMarkets ==
    [reference_price : {RInt(1), RInt(100), Rat(1, 2)},
     spread_multiplier : {ROne, RInt(2), Rat(1, 2)}]

InitResolver ==
    /\ \E raw \in RawInputs :
            /\ raw.buy_amounts_pct \in {None, PyList(<<RInt(1), RInt(3)>>)}
            /\ raw.sell_amounts_pct \in {None, PyList(<<RInt(1), RInt(3)>>)}
            /\ Construct(raw).ok
            /\ config = Construct(raw).val
    /\ cfgState = "ready"
    /\ hooks = ConcreteDefaultHooks
    /\ executors_info = <<>>
    /\ processed_data \in ResolverMarkets
    /\ clock = 0
    /\ lastCall = NoCall
    /\ update_raised = FALSE

NextResolver ==
    \/ \E level_id \in LevelIds(config) : Resolve(level_id)
    \/ \E p \in ProviderPrices : UpdateMarketData(p)

SpecResolver == InitResolver /\ [][NextResolver]_vars

\* the cycle over snapshots longer than EXECUTORS_BUFFER: every executor is bound to
\* buy_0, the snapshot is assembled at tick 0, its executors ending in the order they
\* started, and cycles run as the clock advances
InitBuffer ==
    /\ config = Construct(DefaultRaw).val
    /\ cfgState = "ready"
    /\ hooks \in {ConcreteDefaultHooks, OverridingHooks}
    /\ executors_info = <<>>
    /\ processed_data = [reference_price |-> RInt(100), spread_multiplier |-> ROne]
    /\ clock = 0
    /\ lastCall = NoCall
    /\ update_raised = FALSE

NextBuffer ==
    \/ NewExecutor(LevelId("buy", 0), EXECUTORS_BUFFER + MaxOverflow, 0)
    \/ \E i \in 1..Len(executors_info) : StartTrading(i, 0)
    \/ \E i \in 1..Len(executors_info) :
            /\ \A j \in 1..(i - 1) : executors_info[j].status = TERMINATED
            /\ Terminate(i, 0)
    \/ Tick
    \/ DetermineExecutorActions

SpecBuffer == InitBuffer /\ [][NextBuffer]_vars

\* the closed loop: the orchestrator starts an executor for every CreateExecutor of a
\* cycle before anything else happens, cycles follow one another, and an executor
\* changes only by starting to trade or by ending
PendingCreates ==
    IF lastCall.op = "determine_executor_actions" /\ lastCall.ok
    THEN SelectSeq(lastCall.actions, LAMBDA a : a.type = "CreateExecutorAction")
    ELSE <<>>

\* the orchestrator starts the executors a cycle asked for, each with the level id and
\* the side of its CreateExecutor; most bounds the snapshot
StartExecutors(most) ==
    /\ PendingCreates # <<>>
    /\ Len(executors_info) + Len(PendingCreates) <= most
    /\ executors_info' = executors_info \o
            [k \in 1..Len(PendingCreates) |->
                [id |-> Len(executors_info) + k,
                 trade_type |-> PendingCreates[k].executor_config.side,
                 is_active |-> TRUE, is_trading |-> FALSE, status |-> RUNNING,
                 timestamp |-> clock, close_timestamp |-> None,
                 custom_info |-> [level_id |-> PendingCreates[k].executor_config.level_id]]]
    /\ lastCall' = NoCall
    /\ UNCHANGED <<config, cfgState, hooks, processed_data, clock, update_raised>>

\* the snapshot of the closed loop holds up to MaxExecutors - 1 executors more than the
\* default config has levels: room for the first executor of every level and for the
\* ones that replace them
LoopExecutors == Cardinality(LevelIds(Construct(DefaultRaw).val)) + MaxExecutors - 1

InitLoop ==
    /\ config = Construct(DefaultRaw).val
    /\ cfgState = "ready"
    /\ hooks \in {ConcreteDefaultHooks, OverridingHooks}
    /\ executors_info = <<>>
    /\ processed_data = [reference_price |-> RInt(100), spread_multiplier |-> ROne]
    /\ clock = 0
    /\ lastCall = NoCall
    /\ update_raised = FALSE

NextLoop ==
    \/ StartExecutors(LoopExecutors)
    \/ \E i \in 1..Len(executors_info) :
            PendingCreates = <<>> /\ StartTrading(i, LastTick(config))
    \/ \E i \in 1..Len(executors_info) :
            PendingCreates = <<>> /\ Terminate(i, LastTick(config))
    \/ PendingCreates = <<>> /\ Tick
    \/ PendingCreates = <<>> /\ DetermineExecutorActions

SpecLoop == InitLoop /\ [][NextLoop]_vars

\* the controller with everything that is done to it: cycles over a snapshot of up to
\* one executor, updates of either side of the config, and updates of the market data
InitController ==
    /\ config = Construct(DefaultRaw).val
    /\ cfgState = "ready"
    /\ hooks = ConcreteDefaultHooks
    /\ executors_info = <<>>
    /\ processed_data = [reference_price |-> RInt(100), spread_multiplier |-> ROne]
    /\ clock = 0
    /\ lastCall = NoCall
    /\ update_raised = FALSE

NextController ==
    \/ \E level_id \in LevelIds(config) : NewExecutor(level_id, 1, LastTick(config))
    \/ \E i \in 1..Len(executors_info) : StartTrading(i, LastTick(config))
    \/ \E i \in 1..Len(executors_info) : Terminate(i, LastTick(config))
    \/ Tick
    \/ \E side \in {TradeType.BUY, TradeType.SELL}, n \in 1..MaxLevels :
            UpdateParameters(side, PyList(SpreadLadder(n)), None)
    \/ \E p \in ProviderPrices : UpdateMarketData(p)
    \/ DetermineExecutorActions

SpecController == InitController /\ [][NextController]_vars

-----------------------------------------------------------------------------
(* Properties *)

\* the state right after a cycle that returned its list: nothing but the clock has
\* changed since the cycle read the snapshot, the config and the hooks
AfterCycle == lastCall.op = "determine_executor_actions" /\ lastCall.ok

IsCreate(a) == a.type = "CreateExecutorAction"
IsStop(a) == a.type = "StopExecutorAction"

\* the executors of the snapshot that are active with side Buy or Sell
ActiveBySide ==
    {i \in 1..Len(executors_info) :
        /\ executors_info[i].is_active
        /\ executors_info[i].trade_type \in {TradeType.BUY, TradeType.SELL}}

\* the level has an active executor bound to it
Bound(level_id) ==
    \E i \in ActiveBySide : executors_info[i].custom_info.level_id = level_id

\* the level ids of the CreateExecutor actions of a list, in the order of the list
CreatedLevels(actions) ==
    LET creates == SelectSeq(actions, IsCreate)
    IN  [k \in 1..Len(creates) |-> creates[k].executor_config.level_id]

\* the executor ids of the StopExecutor actions of a list
StoppedIds(actions) == {actions[k].executor_id : k \in {j \in 1..Len(actions) : IsStop(actions[j])}}

\* C1: the list a cycle returns is the CreateExecutor actions, then the StopExecutor
\* actions of the refresh pass, then those of the early-stop hook, then those of the
\* buffer pass; no StopExecutor precedes a CreateExecutor.
C1_PassOrder ==
    AfterCycle =>
        LET create == create_actions_proposal.val
            refresh == executors_to_refresh(lastCall.reads)
            early == executors_to_early_stop
            buffer == store_actions_proposal
            actions == lastCall.actions
        IN  /\ actions = create \o refresh \o early \o buffer
            /\ \A k \in 1..Len(create) : IsCreate(create[k])
            /\ \A k \in 1..Len(refresh \o early \o buffer) : IsStop((refresh \o early \o buffer)[k])
            /\ \A i, j \in 1..Len(actions) :
                    (i < j /\ IsCreate(actions[j])) => IsCreate(actions[i])

\* a cycle in which each of the four passes gave at least one action, the stops of the
\* three stop passes differing
C1_Witness ==
    /\ AfterCycle
    /\ create_actions_proposal.val # <<>>
    /\ executors_to_refresh(lastCall.reads) # <<>>
    /\ executors_to_early_stop # <<>>
    /\ store_actions_proposal # <<>>
    /\ StoppedIds(executors_to_refresh(lastCall.reads)) # StoppedIds(executors_to_early_stop)
    /\ StoppedIds(store_actions_proposal) # StoppedIds(executors_to_early_stop)

\* C2: a cycle emits no CreateExecutor for a level id bound to an executor that is
\* active with side Buy or Sell, and a second cycle on the unchanged snapshot and
\* config returns the same CreateExecutor actions as the first.
C2_CreateIdempotent ==
    /\ [](AfterCycle =>
            \A k \in 1..Len(lastCall.actions) :
                IsCreate(lastCall.actions[k]) =>
                    ~Bound(lastCall.actions[k].executor_config.level_id))
    /\ [][(/\ AfterCycle
           /\ lastCall'.op = "determine_executor_actions"
           /\ executors_info' = executors_info
           /\ config' = config)
          => (/\ lastCall'.ok
              /\ SelectSeq(lastCall'.actions, IsCreate) = SelectSeq(lastCall.actions, IsCreate))]_vars

\* a cycle that created some levels while another level had its active executor
C2_Witness ==
    /\ AfterCycle
    /\ \E k \in 1..Len(lastCall.actions) : IsCreate(lastCall.actions[k])
    /\ \E i \in ActiveBySide :
            /\ executors_info[i].custom_info.level_id \in LevelIds(config)
            /\ executors_info[i].trade_type = TradeType.SELL

\* the spread of a level of the config
SpreadOf(level_id) ==
    (IF level_id[1] = "buy" THEN config.buy_spreads ELSE config.sell_spreads)[level_id[2] + 1]

\* C3: for a positive reference price, a positive spread multiplier and a spread
\* greater than 0, get_price_and_amount returns a price strictly below the reference
\* price for a Buy level and strictly above it for a Sell level.
C3_BuyBelowSellAbove ==
    (/\ lastCall.op = "get_price_and_amount"
     /\ RLt(RZero, processed_data.reference_price)
     /\ RLt(RZero, processed_data.spread_multiplier)
     /\ RLt(RZero, SpreadOf(lastCall.level_id)))
    => /\ lastCall.ok
       /\ get_trade_type_from_level_id(lastCall.level_id) = TradeType.BUY
            => RLt(lastCall.price, processed_data.reference_price)
       /\ get_trade_type_from_level_id(lastCall.level_id) = TradeType.SELL
            => RLt(processed_data.reference_price, lastCall.price)

\* C4: an update_parameters call that raises leaves the spreads and the amounts of
\* both sides as they were before the call.
C4_AtomicUpdate ==
    [][(lastCall'.op = "update_parameters" /\ ~lastCall'.ok /\ cfgState = "ready")
       => (/\ config'.buy_spreads = config.buy_spreads
           /\ config'.buy_amounts_pct = config.buy_amounts_pct
           /\ config'.sell_spreads = config.sell_spreads
           /\ config'.sell_amounts_pct = config.sell_amounts_pct)]_vars

\* the executors of the snapshot whose status is Terminated
TerminatedExecutors ==
    {i \in 1..Len(executors_info) : executors_info[i].status = TERMINATED}

\* C5: with N terminated executors in the snapshot and N > EXECUTORS_BUFFER, the buffer
\* pass issues StopExecutor for exactly N - EXECUTORS_BUFFER executors.
C5_BufferCount ==
    (AfterCycle /\ Cardinality(TerminatedExecutors) > EXECUTORS_BUFFER)
    => /\ Len(store_actions_proposal) = Cardinality(TerminatedExecutors) - EXECUTORS_BUFFER
       /\ Cardinality(StoppedIds(store_actions_proposal))
            = Cardinality(TerminatedExecutors) - EXECUTORS_BUFFER

\* the executor is active, not trading and older than the refresh time when the cycle
\* starts
StaleAt(i, now) ==
    /\ executors_info[i].is_active
    /\ ~executors_info[i].is_trading
    /\ now - executors_info[i].timestamp > config.executor_refresh_time

\* C6: when the snapshot holds an executor bound to a level that is active, not trading
\* and older than executor_refresh_time, the cycle's list holds a StopExecutor for that
\* executor and no CreateExecutor for that level.
C6_StaleStoppedNotRecreated ==
    AfterCycle =>
        \A i \in 1..Len(executors_info) :
            StaleAt(i, lastCall.now) =>
                /\ StopExecutorAction(executors_info[i].id) \in Range(lastCall.actions)
                /\ executors_info[i].custom_info.level_id
                        \notin Range(CreatedLevels(lastCall.actions))

\* a cycle over a snapshot with a stale executor bound to buy_0, in which other levels
\* were created
C6_Witness ==
    /\ AfterCycle
    /\ \E i \in 1..Len(executors_info) :
            /\ StaleAt(i, lastCall.now)
            /\ executors_info[i].custom_info.level_id = LevelId("buy", 0)
    /\ CreatedLevels(lastCall.actions) # <<>>

\* C7: two executors of one snapshot with equal created_at, is_active and is_trading
\* are both refresh-stopped by a cycle or both left alone.
C7_OneNowPerCycle ==
    AfterCycle =>
        LET refreshed == StoppedIds(executors_to_refresh(lastCall.reads))
        IN  \A i, j \in 1..Len(executors_info) :
                (/\ executors_info[i].timestamp = executors_info[j].timestamp
                 /\ executors_info[i].is_active = executors_info[j].is_active
                 /\ executors_info[i].is_trading = executors_info[j].is_trading)
                => (executors_info[i].id \in refreshed <=> executors_info[j].id \in refreshed)

\* 1 within the rounding of a sum of floats
NearOne(x) == RLt(Rat(99, 100), x) /\ RLt(x, Rat(101, 100))

\* C8: after construction and any sequence of update_parameters calls that all
\* returned, each side's amount fractions are as many as its spreads and sum to 1
\* (within rounding).
C8_FractionsSumToOne ==
    (cfgState = "ready" /\ ~update_raised)
    => /\ Len(config.buy_amounts_pct) = Len(config.buy_spreads)
       /\ NearOne(sum(config.buy_amounts_pct))
       /\ Len(config.sell_amounts_pct) = Len(config.sell_spreads)
       /\ NearOne(sum(config.sell_amounts_pct))

\* every one of the N levels of the side holds the fraction 1/N
EqualFractions(spreads, amounts_pct) ==
    /\ Len(amounts_pct) = Len(spreads)
    /\ \A i \in 1..Len(amounts_pct) : amounts_pct[i] = Rat(1, Len(spreads))

\* C9: when the amounts of a side are None, at construction or in update_parameters,
\* every one of the side's N levels receives the fraction 1/N, whatever the side held.
C9_EqualSplitWhenOmitted ==
    /\ (lastCall.op = "construct" /\ lastCall.ok /\ ~lastCall.buy_amounts_given)
        => EqualFractions(config.buy_spreads, config.buy_amounts_pct)
    /\ (lastCall.op = "construct" /\ lastCall.ok /\ ~lastCall.sell_amounts_given)
        => EqualFractions(config.sell_spreads, config.sell_amounts_pct)
    /\ (lastCall.op = "update_parameters" /\ lastCall.ok /\ ~lastCall.amounts_given)
        => IF lastCall.trade_type = TradeType.BUY
           THEN EqualFractions(config.buy_spreads, config.buy_amounts_pct)
           ELSE EqualFractions(config.sell_spreads, config.sell_amounts_pct)

\* an update_parameters call without amounts on a side that held unequal fractions for
\* as many levels as the new spreads
C9_Witness ==
    /\ lastCall.op = "update_parameters" /\ lastCall.ok /\ ~lastCall.amounts_given
    /\ lastCall.trade_type = TradeType.SELL
    /\ lastCall.held = <<Rat(1, 4), Rat(3, 4)>>
    /\ config.sell_amounts_pct = <<Rat(1, 2), Rat(1, 2)>>

\* the levels of one side that have no active executor, by ascending index
MissingLevels(side, spreads) ==
    LET unbound(i) == ~Bound(LevelId(side, i - 1))
        idx == SelectSeq([i \in 1..Len(spreads) |-> i], unbound)
    IN  [k \in 1..Len(idx) |-> LevelId(side, idx[k] - 1)]

\* C10: with the default filter hook the create list holds exactly one CreateExecutor
\* for each configured level that has no active executor: the missing buy levels by
\* ascending index, then the missing sell levels by ascending index; with an empty
\* snapshot and two buy and two sell levels the cycle returns the four CreateExecutor
\* actions for buy_0, buy_1, sell_0, sell_1 and no stop action.
C10_CreateList ==
    (AfterCycle /\ hooks.filter_not_active_levels = "default")
    => /\ CreatedLevels(lastCall.actions)
            = MissingLevels("buy", config.buy_spreads)
                \o MissingLevels("sell", config.sell_spreads)
       /\ (/\ executors_info = <<>>
           /\ Len(config.buy_spreads) = 2
           /\ Len(config.sell_spreads) = 2)
          => /\ Len(lastCall.actions) = 4
             /\ \A k \in 1..4 : IsCreate(lastCall.actions[k])
             /\ CreatedLevels(lastCall.actions)
                    = <<LevelId("buy", 0), LevelId("buy", 1),
                        LevelId("sell", 0), LevelId("sell", 1)>>

\* the cycle over the empty snapshot with two buy and two sell levels
C10_WitnessEmpty ==
    /\ AfterCycle /\ hooks.filter_not_active_levels = "default"
    /\ executors_info = <<>>
    /\ Len(lastCall.actions) = 4

\* C11: an update_parameters call that returns leaves the other side's spreads and
\* amount fractions and every scalar field as they were before the call.
C11_OtherSideUntouched ==
    [][(lastCall'.op = "update_parameters" /\ lastCall'.ok /\ cfgState = "ready")
       => (/\ lastCall'.trade_type = TradeType.BUY
                => /\ config'.sell_spreads = config.sell_spreads
                   /\ config'.sell_amounts_pct = config.sell_amounts_pct
           /\ lastCall'.trade_type = TradeType.SELL
                => /\ config'.buy_spreads = config.buy_spreads
                   /\ config'.buy_amounts_pct = config.buy_amounts_pct
           /\ \A f \in {"total_amount_quote", "executor_refresh_time", "cooldown_time",
                        "closed_executors_buffer", "leverage", "position_mode"} :
                    config'[f] = config[f])]_vars

\* C12: with get_executor_config not supplied by a strategy, a cycle over a snapshot
\* in which at least one level is to be created raises NotImplementedError and returns
\* no action list.
C12_UnimplementedFailsLoudly ==
    (/\ lastCall.op = "determine_executor_actions"
     /\ hooks.get_executor_config = "base"
     /\ MissingLevels("buy", config.buy_spreads)
            \o MissingLevels("sell", config.sell_spreads) # <<>>)
    => /\ ~lastCall.ok
       /\ lastCall.err = "NotImplementedError"
       /\ lastCall.actions = <<>>

\* such a cycle over a snapshot that holds an executor the refresh pass would stop
C12_Witness ==
    /\ lastCall.op = "determine_executor_actions"
    /\ hooks.get_executor_config = "base"
    /\ ~lastCall.ok
    /\ \E i \in 1..Len(executors_info) : StaleAt(i, lastCall.now)

\* the StopExecutor actions the refresh pass gives when every executor of the snapshot
\* is judged against the one time now: one for each executor that is active, not
\* trading and older than executor_refresh_time, in snapshot order
RefreshStopsAt(now) ==
    LET idx == SelectSeq([i \in 1..Len(executors_info) |-> i], LAMBDA i : StaleAt(i, now))
    IN  [k \in 1..Len(idx) |-> StopExecutorAction(executors_info[idx[k]].id)]

\* C13: the refresh pass of a cycle stops an executor exactly when it is active, not
\* trading and now - created_at > executor_refresh_time, in snapshot order, for a time
\* now of the cycle (between its start and its last reading of the clock).
C13_RefreshExactlyStale ==
    AfterCycle =>
        \E now \in lastCall.now..clock :
            executors_to_refresh(lastCall.reads) = RefreshStopsAt(now)

\* the StopExecutor actions for the executors at positions EXECUTORS_BUFFER and later
\* of the snapshot (counted from 0), in snapshot order
SnapshotPastBuffer ==
    [k \in 1..(Len(executors_info) - EXECUTORS_BUFFER) |->
        StopExecutorAction(executors_info[EXECUTORS_BUFFER + k].id)]

\* C14: the list of a cycle ends with the buffer pass: nothing when the snapshot holds at
\* most EXECUTORS_BUFFER terminated executors, whatever closed_executors_buffer is, and
\* otherwise one StopExecutor for each executor at position EXECUTORS_BUFFER or later of
\* the whole snapshot, in snapshot order.
C14_BufferSlice ==
    AfterCycle =>
        lastCall.actions
            = create_actions_proposal.val \o stop_actions_proposal(lastCall.reads)
                \o (IF Cardinality(TerminatedExecutors) <= EXECUTORS_BUFFER
                    THEN <<>> ELSE SnapshotPastBuffer)

\* a cycle over more terminated executors than EXECUTORS_BUFFER and fewer than
\* closed_executors_buffer, followed in the snapshot by one that is not terminated
C14_Witness ==
    /\ AfterCycle
    /\ Cardinality(TerminatedExecutors) > EXECUTORS_BUFFER
    /\ Cardinality(TerminatedExecutors) < config.closed_executors_buffer
    /\ Len(executors_info) > Cardinality(TerminatedExecutors)
    /\ Len(SelectSeq(lastCall.actions, IsStop)) >= 2

\* a cycle over exactly EXECUTORS_BUFFER terminated executors and more executors after
\* them, which returns no StopExecutor
C14_WitnessAtBuffer ==
    /\ AfterCycle
    /\ Cardinality(TerminatedExecutors) = EXECUTORS_BUFFER
    /\ Len(executors_info) > EXECUTORS_BUFFER
    /\ SelectSeq(lastCall.actions, IsStop) = <<>>

\* every level id a config of the model may hold
AllLevelIds == {LevelId(side, i) : side \in {"buy", "sell"}, i \in 0..(MaxLevels - 1)}

\* a cycle has returned a refresh stop for an active executor bound to the level
RefreshStopFor(level_id) ==
    /\ AfterCycle
    /\ \E i \in ActiveBySide :
            /\ executors_info[i].custom_info.level_id = level_id
            /\ StopExecutorAction(executors_info[i].id)
                    \in Range(executors_to_refresh(lastCall.reads))

\* a cycle with the default filter hook has returned over a snapshot in which the
\* configured level has no active executor
FreeCycle(level_id) ==
    /\ AfterCycle
    /\ hooks.filter_not_active_levels = "default"
    /\ level_id \in LevelIds(config)
    /\ ~Bound(level_id)

\* C15: once a cycle has returned a refresh stop for the executor bound to a level,
\* every later cycle that finds no active executor for the level returns a
\* CreateExecutor for it; and any cycle that finds a configured level without an active
\* executor returns a CreateExecutor for it.
C15_RecreateWhenFree ==
    /\ \A level_id \in AllLevelIds :
            [](RefreshStopFor(level_id)
                => [](FreeCycle(level_id)
                        => level_id \in Range(CreatedLevels(lastCall.actions))))
    /\ \A level_id \in AllLevelIds :
            [](FreeCycle(level_id) => level_id \in Range(CreatedLevels(lastCall.actions)))

\* a cycle that creates a level whose executor closed after it had become older than
\* executor_refresh_time
C15_Witness ==
    /\ AfterCycle
    /\ hooks.filter_not_active_levels = "default"
    /\ \E i \in 1..Len(executors_info) :
            /\ executors_info[i].status = TERMINATED
            /\ executors_info[i].close_timestamp - executors_info[i].timestamp
                    > config.executor_refresh_time
            /\ ~Bound(executors_info[i].custom_info.level_id)
            /\ executors_info[i].custom_info.level_id
                    \in Range(CreatedLevels(lastCall.actions))

\* C16: in the closed loop no level id is bound to more than one active executor.
C16_OneActivePerLevel ==
    \A i, j \in ActiveBySide :
        executors_info[i].custom_info.level_id = executors_info[j].custom_info.level_id
            => i = j

\* every level of the config has its active executor, one of them the second executor
\* the loop has started for its level
C16_Witness ==
    /\ \A level_id \in LevelIds(config) : Bound(level_id)
    /\ \E i, j \in 1..Len(executors_info) :
            /\ i < j
            /\ executors_info[i].custom_info.level_id = executors_info[j].custom_info.level_id
            /\ ~executors_info[i].is_active
            /\ executors_info[j].is_active

\* C17: with the default early-stop hook, no executor id is the target of more than one
\* StopExecutor action of the list a cycle returns.
C17_NoDuplicateStop ==
    (AfterCycle /\ hooks.executors_to_early_stop = "default")
    => \A k, l \in 1..Len(lastCall.actions) :
            (/\ IsStop(lastCall.actions[k])
             /\ IsStop(lastCall.actions[l])
             /\ lastCall.actions[k].executor_id = lastCall.actions[l].executor_id)
            => k = l

\* C18: every StopExecutor of the buffer pass of a cycle targets an executor whose
\* status is TERMINATED.
C18_BufferStopsTerminatedOnly ==
    AfterCycle =>
        \A k \in 1..Len(store_actions_proposal) :
            \A i \in 1..Len(executors_info) :
                executors_info[i].id = store_actions_proposal[k].executor_id
                    => executors_info[i].status = TERMINATED

\* C19: no config that construction or update_parameters has left in place has a side
\* whose amounts sum to zero: a side of all-zero weights and an empty side are refused.
C19_NoZeroTotal ==
    cfgState = "ready"
    => /\ sum(config.buy_amounts_pct) # RZero
       /\ sum(config.sell_amounts_pct) # RZero

\* C20: a cycle leaves the config, the snapshot and the processed market data as they
\* were; the config changes in update_parameters only and the market data in
\* update_market_data only.
C20_CycleFrame ==
    [][/\ lastCall'.op = "determine_executor_actions"
            => /\ config' = config
               /\ executors_info' = executors_info
               /\ processed_data' = processed_data
       /\ config' # config => lastCall'.op = "update_parameters"
       /\ processed_data' # processed_data => lastCall'.op = "update_market_data"]_vars

\* a cycle has returned CreateExecutor actions, priced from a config that an update has
\* changed and from market data that update_market_data has changed
C20_Witness ==
    /\ AfterCycle
    /\ CreatedLevels(lastCall.actions) # <<>>
    /\ config # Construct(DefaultRaw).val
    /\ processed_data.reference_price # RInt(100)

=============================================================================
